---- MODULE Spec2Model ----
(***************************************************************************)
(* The chat relay of server.py: the in-memory message list, its lock, and  *)
(* the two request handlers ChatHandler.do_GET and ChatHandler.do_POST,    *)
(* each cut into steps at the points where it touches the shared list; and *)
(* the session of client.py: the foreground loop of run_interactive and    *)
(* the background thread poll_messages, which share the session's fields.  *)
(*                                                                         *)
(* Text (a username, a message) is a sequence of one-character strings, so *)
(* that str.strip() is computed and not assumed.  The wall clock that      *)
(* stamps a message is a counter of seconds.                               *)
(***************************************************************************)
EXTENDS Integers, Sequences, FiniteSets, TLC

\* ------------------------------------------------------------------ bounds

\* Handler threads that may hold a request at the same time.
NumHandlers == 2
\* The store stops accepting posts at this length.
MaxMessages == 2
\* The wall clock stops advancing at this second.
MaxClock == 1
\* Largest magnitude of the 'since' query parameter beyond the store's length.
MaxSince == 1

Handlers == 1 .. NumHandlers

\* ------------------------------------------------------------ text values

Min(a, b) == IF a < b THEN a ELSE b
Max(a, b) == IF a < b THEN b ELSE a

\* The characters str.strip() removes.
Whitespace == {" ", "\t", "\n", "\r"}

RECURSIVE LStrip(_)
LStrip(s) ==
    IF s # <<>> /\ Head(s) \in Whitespace THEN LStrip(Tail(s)) ELSE s

RECURSIVE RStrip(_)
RStrip(s) ==
    IF s # <<>> /\ s[Len(s)] \in Whitespace
        THEN RStrip(SubSeq(s, 1, Len(s) - 1))
        ELSE s

\* str.strip()
Strip(s) == RStrip(LStrip(s))

\* ------------------------------------------------------------ JSON values

\* A value is a sequence of strings: text is a sequence of characters, and what
\* is not text is a one-element sequence holding a marker no character equals.

\* A key the JSON object does not have.
Absent == <<"<absent>">>
\* A JSON value that is not a string (null, a number, a list, ...).
NonString == <<"<null>">>

IsString(v) == v # Absent /\ v # NonString

\* The default of data.get('username', 'Anonymous').
Anonymous == <<"A", "n", "o", "n", "y", "m", "o", "u", "s">>
\* The default of data.get('message', '').
EmptyText == <<>>

\* dict.get(key, default) on a field of a parsed JSON object.
DictGet(field, default) == IF field = Absent THEN default ELSE field

\* A slice that starts one element late.
SliceFromOffByOne(list, i) ==
    LET n == Len(list)
        start == IF i < 0 THEN Max(n + i, 0) ELSE Min(i + 1, n)
    IN  SubSeq(list, start + 1, n)

\* list[i:] with Python's index rules: a negative index counts from the end,
\* and an index outside the list is clamped to it.
SliceFrom(list, i) ==
    LET n == Len(list)
        start == IF i < 0 THEN Max(n + i, 0) ELSE Min(i, n)
    IN  SubSeq(list, start + 1, n)

\* An insert at the front in place of an append.
ListPrepend(list, x) == <<x>> \o list

\* list.append(x)
ListAppend(list, x) == Append(list, x)

\* --------------------------------------------------- requests and responses

\* The usernames a request may carry: "", " ", "a".
Usernames == {<<>>, <<" ">>, <<"a">>}

\* The message texts a request may carry: "", " ", "a", " a ".
Texts == {<<>>, <<" ">>, <<"a">>, <<" ", "a", " ">>}

\* The body of a POST: text that json.loads rejects, JSON that is not an
\* object, or an object with its 'username' and 'message' fields.
Bodies ==
    {[kind |-> "invalid", username |-> Absent, message |-> Absent],
     [kind |-> "nonobject", username |-> Absent, message |-> Absent]}
    \cup [kind : {"object"},
          username : {Absent} \cup Usernames,
          message : {Absent, NonString} \cup Texts]

NoBody == [kind |-> "none", username |-> Absent, message |-> Absent]

\* The query of a GET: no 'since' parameter, since=<integer>, or since=<text
\* that int() rejects>.
Queries ==
    {[since |-> "absent", value |-> 0], [since |-> "notint", value |-> 0]}
    \cup [since : {"int"}, value : (0 - MaxSince) .. (MaxMessages + MaxSince)]

NoQuery == [since |-> "absent", value |-> 0]

GetPaths == {"/", "/messages", "/status", "/other"}
PostPaths == {"/send", "/other"}

GetRequests ==
    [method : {"GET"}, path : {"/messages"}, query : Queries, body : {NoBody}]
    \cup [method : {"GET"}, path : GetPaths \ {"/messages"},
          query : {NoQuery}, body : {NoBody}]

PostRequests ==
    [method : {"POST"}, path : {"/send"}, query : {NoQuery}, body : Bodies]
    \cup [method : {"POST"}, path : PostPaths \ {"/send"},
          query : {NoQuery}, body : {NoBody}]

NoRequest == [method |-> "none", path |-> "", query |-> NoQuery, body |-> NoBody]

NoMessage == [id |-> 0 - 1, username |-> <<>>, message |-> <<>>, timestamp |-> 0]

\* A response: the status line and the fields of the JSON body.  status 0 is
\* no response at all: the handler raised, and the connection was closed.
Response(status, kind, error, message, list, count) ==
    [status |-> status, kind |-> kind, error |-> error, message |-> message,
     messages |-> list, count |-> count]

NoResponse == Response(0, "none", "", NoMessage, <<>>, 0)
ErrorResponse(status, error) == Response(status, "error", error, NoMessage, <<>>, 0)
NotFound == ErrorResponse(404, "Not found")
InvalidJSON == ErrorResponse(400, "Invalid JSON")
EmptyMessage == ErrorResponse(400, "Message cannot be empty")
Success(message) == Response(200, "success", "", message, <<>>, 0)
MessagesResponse(list, total) == Response(200, "messages", "", NoMessage, list, total)
StatusResponse(count) == Response(200, "status", "", NoMessage, <<>>, count)
HtmlResponse == Response(200, "html", "", NoMessage, <<>>, 0)

\* -------------------------------------------------------------------- state

VARIABLES
    messages,       \* server.py line 14: the in-memory message storage
    messages_lock,  \* server.py line 15: 0 when free, else the handler holding it
    pc,             \* where each handler stands in do_GET / do_POST
    request,        \* the request each handler is serving
    since_index,    \* do_GET's local since_index
    new_messages,   \* do_GET's local new_messages
    new_message,    \* do_POST's local new_message
    response,       \* what each handler sent back
    accepted,       \* how many success responses do_POST has sent
    clock,          \* the wall clock datetime.now() reads, in seconds
    last_fetch,     \* the last /messages response sent since the last append
    self_username,  \* client.py line 19: self.username
    last_message_id,\* client.py line 20: self.last_message_id
    running,        \* client.py line 21: self.running
    main,           \* where run_interactive stands
    result,         \* run_interactive's local result (line 161)
    incr_value,     \* the value line 163 has read and not yet written back
    poller,         \* where poll_messages stands
    poll_since,     \* the argument of get_messages at line 62
    poll_data,      \* poll_messages' local data
    poll_cursor,    \* the position of line 64's for loop in data['messages']
    connected,      \* the first status check has succeeded
    contacted,      \* the session has sent a /messages or /send request
    loaded,         \* the total the session adopted when it loaded the history
    own,            \* the ids of the messages this session has posted
    displayed,      \* the ids of the messages the poller has printed
    shown_twice     \* the poller has printed some message a second time

\* The server: the module state of server.py and its handlers' locals.
svars == <<messages, messages_lock, pc, request, since_index, new_messages,
           new_message, response, accepted, clock>>

\* The session: the fields of ChatClient, the locals of its two threads, and
\* what the session has done so far.
cvars == <<self_username, last_message_id, running, main, result, incr_value,
           poller, poll_since, poll_data, poll_cursor, connected, contacted,
           loaded, own, displayed, shown_twice>>

vars == <<svars, last_fetch, cvars>>

\* None: what get_messages, get_status and send_message return on URLError.
NoData == NoResponse

\* No /messages response has been sent since the last append.
NoFetch == [valid |-> FALSE, again |-> FALSE, query |-> NoQuery,
            response |-> NoResponse]

Init ==
    /\ messages = <<>>
    /\ messages_lock = 0
    /\ pc = [h \in Handlers |-> "idle"]
    /\ request = [h \in Handlers |-> NoRequest]
    /\ since_index = [h \in Handlers |-> 0]
    /\ new_messages = [h \in Handlers |-> <<>>]
    /\ new_message = [h \in Handlers |-> NoMessage]
    /\ response = [h \in Handlers |-> NoResponse]
    /\ accepted = 0
    /\ clock = 0
    /\ last_fetch = NoFetch
    /\ self_username = Anonymous
    /\ last_message_id = 0
    /\ running = TRUE
    /\ main = "connecting"
    /\ result = NoData
    /\ incr_value = 0
    /\ poller = "unstarted"
    /\ poll_since = 0
    /\ poll_data = NoData
    /\ poll_cursor = 0
    /\ connected = FALSE
    /\ contacted = FALSE
    /\ loaded = 0
    /\ own = {}
    /\ displayed = {}
    /\ shown_twice = FALSE

\* The handler's request ends: with a response, or with none when it raised.
Finish(h, resp) ==
    /\ pc' = [pc EXCEPT ![h] = "done"]
    /\ response' = [response EXCEPT ![h] = resp]

\* Posts that have passed validation and not yet appended.
PendingPosts == {h \in Handlers : pc[h] \in {"post_lock", "post_append"}}

\* The store is kept finite: no post is taken up once MaxMessages are stored
\* or on their way.
HasRoom == Len(messages) + Cardinality(PendingPosts) < MaxMessages

\* ------------------------------------------------------------------ do_POST

\* An emptiness test that forgets to strip.
IsEmptyUnstripped(message) == message = <<>>

\* The emptiness test of line 70: not message.strip()
IsEmptyMessage(message) == Strip(message) = <<>>

\* A message numbered from 1.
NewMessageOneBased(list, username, message, now) ==
    [id |-> Len(list) + 1, username |-> username, message |-> message,
     timestamp |-> now]

\* The dict of lines 74-79.
NewMessage(list, username, message, now) ==
    [id |-> Len(list), username |-> username, message |-> message,
     timestamp |-> now]

\* Lines 61-79 and 87-90: the route, json.loads, the two data.get calls, the
\* emptiness test, and the construction of new_message, which reads
\* len(messages) without holding the lock.
PostBegin(h, req) ==
    /\ pc[h] = "idle"
    /\ request' = [request EXCEPT ![h] = req]
    /\ LET username == DictGet(req.body.username, Anonymous)
           message == DictGet(req.body.message, EmptyText)
       IN  IF req.path # "/send"
               THEN Finish(h, NotFound) /\ UNCHANGED new_message
           ELSE IF req.body.kind = "invalid"
               THEN Finish(h, InvalidJSON) /\ UNCHANGED new_message
           ELSE IF req.body.kind # "object" \/ ~IsString(message)
               \* data.get or message.strip raises AttributeError, which
               \* 'except json.JSONDecodeError' does not catch
               THEN Finish(h, NoResponse) /\ UNCHANGED new_message
           ELSE IF IsEmptyMessage(message)
               THEN Finish(h, EmptyMessage) /\ UNCHANGED new_message
           ELSE /\ HasRoom
                /\ new_message' = [new_message EXCEPT
                                     ![h] = NewMessage(messages, username, message, clock)]
                /\ pc' = [pc EXCEPT ![h] = "post_lock"]
                /\ UNCHANGED response
    /\ UNCHANGED <<messages, messages_lock, since_index, new_messages, accepted, clock>>

\* Line 81: with messages_lock (enter)
PostAcquire(h) ==
    /\ pc[h] = "post_lock"
    /\ messages_lock = 0
    /\ messages_lock' = h
    /\ pc' = [pc EXCEPT ![h] = "post_append"]
    /\ UNCHANGED <<messages, request, since_index, new_messages, new_message,
                   response, accepted, clock>>

\* Line 82: messages.append(new_message)
PostAppend(h) ==
    /\ pc[h] = "post_append"
    /\ messages' = ListAppend(messages, new_message[h])
    /\ pc' = [pc EXCEPT ![h] = "post_unlock"]
    /\ UNCHANGED <<messages_lock, request, since_index, new_messages,
                   new_message, response, accepted, clock>>

\* Line 81: with messages_lock (leave)
PostRelease(h) ==
    /\ pc[h] = "post_unlock"
    /\ messages_lock' = 0
    /\ pc' = [pc EXCEPT ![h] = "post_respond"]
    /\ UNCHANGED <<messages, request, since_index, new_messages, new_message,
                   response, accepted, clock>>

\* Lines 84-85: the log line and the success response echoing new_message
PostRespond(h) ==
    /\ pc[h] = "post_respond"
    /\ Finish(h, Success(new_message[h]))
    /\ accepted' = accepted + 1
    /\ UNCHANGED <<messages, messages_lock, request, since_index, new_messages,
                   new_message, clock>>

\* ------------------------------------------------------------------- do_GET

\* Line 45: int(query_params.get('since', [0])[0])
SinceIndex(query) == IF query.since = "absent" THEN 0 ELSE query.value

\* Lines 37-45 and 54-57: the route; for /messages the parse of 'since', for
\* /status the response with len(messages), read without the lock.
GetBegin(h, req) ==
    /\ pc[h] = "idle"
    /\ request' = [request EXCEPT ![h] = req]
    /\ IF req.path = "/"
           THEN Finish(h, HtmlResponse) /\ UNCHANGED since_index
       ELSE IF req.path = "/messages"
           THEN IF req.query.since = "notint"
                    \* int() raises ValueError, which nothing catches
                    THEN Finish(h, NoResponse) /\ UNCHANGED since_index
                    ELSE /\ since_index' = [since_index EXCEPT
                                              ![h] = SinceIndex(req.query)]
                         /\ pc' = [pc EXCEPT ![h] = "get_lock"]
                         /\ UNCHANGED response
       ELSE IF req.path = "/status"
           THEN Finish(h, StatusResponse(Len(messages))) /\ UNCHANGED since_index
       ELSE Finish(h, NotFound) /\ UNCHANGED since_index
    /\ UNCHANGED <<messages, messages_lock, new_messages, new_message, accepted, clock>>

\* Line 47: with messages_lock (enter)
GetAcquire(h) ==
    /\ pc[h] = "get_lock"
    /\ messages_lock = 0
    /\ messages_lock' = h
    /\ pc' = [pc EXCEPT ![h] = "get_slice"]
    /\ UNCHANGED <<messages, request, since_index, new_messages, new_message,
                   response, accepted, clock>>

\* A fetch that takes what it returns out of the store.
GetSliceDraining(h) ==
    /\ pc[h] = "get_slice"
    /\ new_messages' = [new_messages EXCEPT
                          ![h] = SliceFrom(messages, since_index[h])]
    /\ messages' = SubSeq(messages, 1,
                          Len(messages) - Len(SliceFrom(messages, since_index[h])))
    /\ pc' = [pc EXCEPT ![h] = "get_unlock"]
    /\ UNCHANGED <<messages_lock, request, since_index, new_message,
                   response, accepted, clock>>

\* Line 48: new_messages = messages[since_index:]
GetSlice(h) ==
    /\ pc[h] = "get_slice"
    /\ new_messages' = [new_messages EXCEPT
                          ![h] = SliceFrom(messages, since_index[h])]
    /\ pc' = [pc EXCEPT ![h] = "get_unlock"]
    /\ UNCHANGED <<messages, messages_lock, request, since_index, new_message,
                   response, accepted, clock>>

\* Line 47: with messages_lock (leave)
GetRelease(h) ==
    /\ pc[h] = "get_unlock"
    /\ messages_lock' = 0
    /\ pc' = [pc EXCEPT ![h] = "get_respond"]
    /\ UNCHANGED <<messages, request, since_index, new_messages, new_message,
                   response, accepted, clock>>

\* Lines 50-53: the response, whose 'total' is len(messages) read now
GetRespond(h) ==
    /\ pc[h] = "get_respond"
    /\ Finish(h, MessagesResponse(new_messages[h], Len(messages)))
    /\ UNCHANGED <<messages, messages_lock, request, since_index, new_messages,
                   new_message, accepted, clock>>

\* ------------------------------------------------------------------- server

\* The handler object is dropped once its request is finished.
Return(h) ==
    /\ pc[h] = "done"
    /\ pc' = [pc EXCEPT ![h] = "idle"]
    /\ request' = [request EXCEPT ![h] = NoRequest]
    /\ since_index' = [since_index EXCEPT ![h] = 0]
    /\ new_messages' = [new_messages EXCEPT ![h] = <<>>]
    /\ new_message' = [new_message EXCEPT ![h] = NoMessage]
    /\ response' = [response EXCEPT ![h] = NoResponse]
    /\ UNCHANGED <<messages, messages_lock, accepted, clock>>

\* A second passes on the wall clock.
Tick ==
    /\ clock < MaxClock
    /\ clock' = clock + 1
    /\ UNCHANGED <<messages, messages_lock, pc, request, since_index,
                   new_messages, new_message, response, accepted>>

\* No request is being handled.
ServerFree == \A h \in Handlers : pc[h] = "idle"

\* What a step of the server leaves alone.
Frame == UNCHANGED <<last_fetch, cvars>>

\* run_server: HTTPServer.serve_forever takes the next request only when the
\* handler of the previous one has returned; the handler then runs step by
\* step.
Next ==
    \/ \E h \in Handlers :
           \/ ServerFree /\ (\E req \in GetRequests : GetBegin(h, req)) /\ Frame
           \/ ServerFree /\ (\E req \in PostRequests : PostBegin(h, req)) /\ Frame
           \/ GetAcquire(h) /\ Frame
           \/ GetSlice(h) /\ Frame
           \/ GetRelease(h) /\ Frame
           \/ GetRespond(h) /\ Frame
           \/ PostAcquire(h) /\ Frame
           \/ PostAppend(h) /\ Frame
           \/ PostRelease(h) /\ Frame
           \/ PostRespond(h) /\ Frame
           \/ Return(h) /\ Frame
    \/ Tick /\ Frame

Spec == Init /\ [][Next]_vars

\* The scheduling of section 5 of the design: a handler per request, the
\* handlers of several requests running in parallel.
ThreadedNext ==
    \/ \E h \in Handlers :
           \/ (\E req \in GetRequests : GetBegin(h, req)) /\ Frame
           \/ (\E req \in PostRequests : PostBegin(h, req)) /\ Frame
           \/ GetAcquire(h) /\ Frame
           \/ GetSlice(h) /\ Frame
           \/ GetRelease(h) /\ Frame
           \/ GetRespond(h) /\ Frame
           \/ PostAcquire(h) /\ Frame
           \/ PostAppend(h) /\ Frame
           \/ PostRelease(h) /\ Frame
           \/ PostRespond(h) /\ Frame
           \/ Return(h) /\ Frame
    \/ Tick /\ Frame

SpecThreaded == Init /\ [][ThreadedNext]_vars

\* The /messages response a handler sends, recorded with its query; 'again'
\* tells that the response before it answered the same query.
Fetch(h, resp) ==
    [valid |-> TRUE,
     again |-> last_fetch.valid /\ last_fetch.query = request[h].query,
     query |-> request[h].query,
     response |-> resp]

\* The server of Spec, with the last /messages response kept for comparison
\* until the next append.
FetchNext ==
    \/ \E h \in Handlers :
           \/ ServerFree /\ (\E req \in GetRequests : GetBegin(h, req)) /\ Frame
           \/ ServerFree /\ (\E req \in PostRequests : PostBegin(h, req)) /\ Frame
           \/ GetAcquire(h) /\ Frame
           \/ GetSlice(h) /\ Frame
           \/ GetRelease(h) /\ Frame
           \/ GetRespond(h) /\ last_fetch' = Fetch(h, response'[h])
                            /\ UNCHANGED cvars
           \/ PostAcquire(h) /\ Frame
           \/ PostAppend(h) /\ last_fetch' = NoFetch /\ UNCHANGED cvars
           \/ PostRelease(h) /\ Frame
           \/ PostRespond(h) /\ Frame
           \/ Return(h) /\ Frame
    \/ Tick /\ Frame

SpecFetch == Init /\ [][FetchNext]_vars

\* ------------------------------------------------- the server, as a client
\* ------------------------------------------------- sees it: one request,
\* ------------------------------------------------- handled from start to end

\* What the session's steps leave alone on the server: the handlers' own
\* state, the clock, and the record of the last fetch.
hvars == <<messages_lock, pc, request, since_index, new_messages, new_message,
           response, clock, last_fetch>>

\* do_POST on /send, run alone from its first line to its last: its response.
PostResponse(list, body, now) ==
    LET username == DictGet(body.username, Anonymous)
        message == DictGet(body.message, EmptyText)
    IN  IF body.kind = "invalid" THEN InvalidJSON
        ELSE IF body.kind # "object" \/ ~IsString(message) THEN NoResponse
        ELSE IF IsEmptyMessage(message) THEN EmptyMessage
        ELSE Success(NewMessage(list, username, message, now))

\* do_POST on /send, run alone: the store it leaves.
StoreAfterPost(list, body, now) ==
    LET resp == PostResponse(list, body, now)
    IN  IF resp.kind = "success" THEN ListAppend(list, resp.message) ELSE list

\* do_GET on /messages?since=<since>, run alone: its response.
FetchResponse(list, since) ==
    MessagesResponse(SliceFrom(list, since), Len(list))

\* ------------------------------------------------------------------- client

\* How a request of the client ends: with the server's response; with a
\* URLError before the server is reached (connection refused); or with the
\* server accepting the connection and staying silent for the 5 seconds of
\* timeout=5, which raises TimeoutError, an OSError that is no URLError.
Transport == {"ok", "refused", "timeout"}

\* What the user types at the username prompt: nothing, or "a ".
LoginInputs == {<<>>, <<"a", " ">>}
\* What the user types after /name: "b".
NameInputs == {<<"b">>}
\* The lines the user sends as messages: "a".
SendTexts == {<<"a">>}
\* The usernames other participants post under: "b".
OtherNames == {<<"b">>}

\* The body send_message builds at lines 25-28.
SendBody(name, text) ==
    [kind |-> "object", username |-> name, message |-> text]

\* What a request method returns for a response: the parsed JSON body of a
\* 200, and None for an error status (HTTPError is a URLError).
ClientReturn(resp) == IF resp.status = 200 THEN resp ELSE NoData

\* Lines 100-101: input(...).strip(), 'Anonymous' when that is empty.
ChosenName(raw) == IF Strip(raw) # <<>> THEN Strip(raw) ELSE Anonymous

\* Lines 89-97: the status check that opens the session.
Connect(t) ==
    /\ main = "connecting"
    /\ IF t = "ok"
           THEN main' = "login" /\ connected' = TRUE
       ELSE IF t = "refused"
           THEN main' = "failed" /\ UNCHANGED connected
       ELSE main' = "crashed" /\ UNCHANGED connected
    /\ UNCHANGED <<hvars, messages, accepted, self_username, last_message_id,
                   running, result, incr_value, poller, poll_since, poll_data,
                   poll_cursor, contacted, loaded, own, displayed, shown_twice>>

\* Lines 99-102: the username prompt.
Login(raw) ==
    /\ main = "login"
    /\ self_username' = ChosenName(raw)
    /\ main' = "load"
    /\ UNCHANGED <<hvars, messages, accepted, last_message_id, running, result,
                   incr_value, poller, poll_since, poll_data, poll_cursor,
                   connected, contacted, loaded, own, displayed, shown_twice>>

\* Lines 104-111: the history is loaded with get_messages() and, when there
\* is any, its total becomes the offset.
Load(t) ==
    /\ main = "load"
    /\ contacted' = TRUE
    /\ LET data == FetchResponse(messages, 0)
       IN  IF t = "ok" /\ data.messages # <<>>
               THEN /\ last_message_id' = data.count
                    /\ loaded' = data.count
                    /\ main' = "start"
           ELSE IF t = "timeout"
               THEN main' = "crashed" /\ UNCHANGED <<last_message_id, loaded>>
           ELSE main' = "start" /\ UNCHANGED <<last_message_id, loaded>>
    /\ UNCHANGED <<hvars, messages, accepted, self_username, running, result,
                   incr_value, poller, poll_since, poll_data, poll_cursor,
                   connected, own, displayed, shown_twice>>

\* Lines 113-115: the polling thread is started.
StartPoller ==
    /\ main = "start"
    /\ poller' = "while"
    /\ main' = "prompt"
    /\ UNCHANGED <<hvars, messages, accepted, self_username, last_message_id,
                   running, result, incr_value, poll_since, poll_data,
                   poll_cursor, connected, contacted, loaded, own, displayed,
                   shown_twice>>

\* Lines 130-132 and 165-168: /quit, /exit or Ctrl-C leave the loop, and the
\* finally clause clears self.running.
Quit ==
    /\ main \in {"prompt", "sent", "store"}
    /\ running' = FALSE
    /\ main' = "terminated"
    /\ UNCHANGED <<hvars, messages, accepted, self_username, last_message_id,
                   result, incr_value, poller, poll_since, poll_data,
                   poll_cursor, connected, contacted, loaded, own, displayed,
                   shown_twice>>

\* Lines 133-136: /name <new_username>
Rename(raw) ==
    /\ main = "prompt"
    /\ Strip(raw) # <<>>
    /\ self_username' = Strip(raw)
    /\ UNCHANGED <<hvars, messages, accepted, last_message_id, running, main,
                   result, incr_value, poller, poll_since, poll_data,
                   poll_cursor, connected, contacted, loaded, own, displayed,
                   shown_twice>>

\* Lines 139-145: /status.  A TimeoutError leaves run_interactive through
\* its finally clause.
StatusCommand(t) ==
    /\ main = "prompt"
    /\ IF t = "timeout"
           THEN main' = "crashed" /\ running' = FALSE
           ELSE UNCHANGED <<main, running>>
    /\ UNCHANGED <<hvars, messages, accepted, self_username, last_message_id,
                   result, incr_value, poller, poll_since, poll_data,
                   poll_cursor, connected, contacted, loaded, own, displayed,
                   shown_twice>>

\* Lines 146-154: /history, which prints what get_messages() returns.
HistoryCommand(t) ==
    /\ main = "prompt"
    /\ contacted' = TRUE
    /\ IF t = "timeout"
           THEN main' = "crashed" /\ running' = FALSE
           ELSE UNCHANGED <<main, running>>
    /\ UNCHANGED <<hvars, messages, accepted, self_username, last_message_id,
                   result, incr_value, poller, poll_since, poll_data,
                   poll_cursor, connected, loaded, own, displayed, shown_twice>>

\* Line 161: result = self.send_message(user_input), with the server's
\* do_POST run on the request when it arrives.
Send(text, t) ==
    /\ main = "prompt"
    /\ contacted' = TRUE
    /\ LET body == SendBody(self_username, text)
           resp == PostResponse(messages, body, clock)
       IN  IF t = "ok"
               THEN /\ Len(messages) < MaxMessages
                    /\ messages' = StoreAfterPost(messages, body, clock)
                    /\ result' = ClientReturn(resp)
                    /\ IF resp.kind = "success"
                           THEN /\ own' = own \cup {resp.message.id}
                                /\ accepted' = accepted + 1
                           ELSE UNCHANGED <<own, accepted>>
                    /\ main' = "sent"
                    /\ UNCHANGED running
           ELSE IF t = "refused"
               THEN /\ result' = NoData
                    /\ main' = "sent"
                    /\ UNCHANGED <<messages, accepted, own, running>>
           ELSE /\ main' = "crashed"
                /\ running' = FALSE
                /\ UNCHANGED <<messages, accepted, own, result>>
    /\ UNCHANGED <<hvars, self_username, last_message_id, incr_value, poller,
                   poll_since, poll_data, poll_cursor, connected, loaded,
                   displayed, shown_twice>>

\* Lines 162-163: the test of result, and the read of self.last_message_id
\* that begins 'self.last_message_id += 1'.
CheckResult ==
    /\ main = "sent"
    /\ IF result # NoData /\ result.kind = "success"
           THEN incr_value' = last_message_id /\ main' = "store"
           ELSE UNCHANGED incr_value /\ main' = "prompt"
    /\ result' = NoData
    /\ UNCHANGED <<hvars, messages, accepted, self_username, last_message_id,
                   running, poller, poll_since, poll_data, poll_cursor,
                   connected, contacted, loaded, own, displayed, shown_twice>>

\* Line 163: the write that ends 'self.last_message_id += 1'.
StoreOffset ==
    /\ main = "store"
    /\ last_message_id' = incr_value + 1
    /\ incr_value' = 0
    /\ main' = "prompt"
    /\ UNCHANGED <<hvars, messages, accepted, self_username, running, result,
                   poller, poll_since, poll_data, poll_cursor, connected,
                   contacted, loaded, own, displayed, shown_twice>>

\* A polling loop that never tests self.running.
PollWhileForever ==
    /\ poller = "while"
    /\ poller' = "fetch"
    /\ poll_since' = last_message_id
    /\ UNCHANGED <<hvars, messages, accepted, self_username, last_message_id,
                   running, main, result, incr_value, poll_data, poll_cursor,
                   connected, contacted, loaded, own, displayed, shown_twice>>

\* Line 62: the loop test, and self.last_message_id read as the argument of
\* get_messages.
PollWhile ==
    /\ poller = "while"
    /\ IF running
           THEN poller' = "fetch" /\ poll_since' = last_message_id
           ELSE poller' = "stopped" /\ UNCHANGED poll_since
    /\ UNCHANGED <<hvars, messages, accepted, self_username, last_message_id,
                   running, main, result, incr_value, poll_data, poll_cursor,
                   connected, contacted, loaded, own, displayed, shown_twice>>

\* Lines 63-64 and 70: get_messages, with the server's do_GET run on the
\* request when it arrives; the test of data; and, when there is nothing to
\* show, the sleep that ends the iteration.
PollFetch(t) ==
    /\ poller = "fetch"
    /\ contacted' = TRUE
    /\ LET data == ClientReturn(FetchResponse(messages, poll_since))
       IN  IF t = "ok"
               THEN /\ poll_data' = data
                    /\ IF data # NoData /\ data.messages # <<>>
                           THEN poller' = "for" /\ poll_cursor' = 1
                           ELSE poller' = "while" /\ UNCHANGED poll_cursor
           ELSE IF t = "refused"
               THEN /\ poll_data' = NoData
                    /\ poller' = "while"
                    /\ UNCHANGED poll_cursor
           ELSE /\ poller' = "crashed"
                /\ UNCHANGED <<poll_data, poll_cursor>>
    /\ UNCHANGED <<hvars, messages, accepted, self_username, last_message_id,
                   running, main, result, incr_value, poll_since, connected,
                   loaded, own, displayed, shown_twice>>

\* Lines 65-68: one turn of the for loop, which prints the message unless its
\* username is self.username.
PollFor ==
    /\ poller = "for"
    /\ LET msg == poll_data.messages[poll_cursor]
       IN  IF msg.username # self_username
               THEN /\ displayed' = displayed \cup {msg.id}
                    /\ shown_twice' = (shown_twice \/ msg.id \in displayed)
               ELSE UNCHANGED <<displayed, shown_twice>>
    /\ IF poll_cursor < Len(poll_data.messages)
           THEN poll_cursor' = poll_cursor + 1 /\ UNCHANGED poller
           ELSE poll_cursor' = 0 /\ poller' = "assign"
    /\ UNCHANGED <<hvars, messages, accepted, self_username, last_message_id,
                   running, main, result, incr_value, poll_since, poll_data,
                   connected, contacted, loaded, own>>

\* Lines 69-70: self.last_message_id = data.get('total', ...), and the sleep
\* that ends the iteration.
PollAssign ==
    /\ poller = "assign"
    /\ last_message_id' = poll_data.count
    /\ poller' = "while"
    /\ UNCHANGED <<hvars, messages, accepted, self_username, running, main,
                   result, incr_value, poll_since, poll_data, poll_cursor,
                   connected, contacted, loaded, own, displayed, shown_twice>>

\* Another participant's post reaches the server.
OtherPost(name, text) ==
    /\ Len(messages) < MaxMessages
    /\ messages' = StoreAfterPost(messages, SendBody(name, text), clock)
    /\ accepted' = accepted + 1
    /\ UNCHANGED <<hvars, self_username, last_message_id, running, main,
                   result, incr_value, poller, poll_since, poll_data,
                   poll_cursor, connected, contacted, loaded, own, displayed,
                   shown_twice>>

\* One session against the server of run_server, which handles each request
\* from start to end before the next; other participants post meanwhile.
ClientNext ==
    \/ \E t \in Transport : Connect(t)
    \/ \E raw \in LoginInputs : Login(raw)
    \/ \E t \in Transport : Load(t)
    \/ StartPoller
    \/ Quit
    \/ \E raw \in NameInputs : Rename(raw)
    \/ \E t \in Transport : StatusCommand(t)
    \/ \E t \in Transport : HistoryCommand(t)
    \/ \E text \in SendTexts, t \in Transport : Send(text, t)
    \/ CheckResult
    \/ StoreOffset
    \/ PollWhile
    \/ \E t \in Transport : PollFetch(t)
    \/ PollFor
    \/ PollAssign
    \/ \E name \in OtherNames, text \in SendTexts : OtherPost(name, text)

SpecClient == Init /\ [][ClientNext]_vars

\* ------------------------------------------------------------------- claims

IsGet(h, path) == request[h].method = "GET" /\ request[h].path = path
IsSend(h) == request[h].method = "POST" /\ request[h].path = "/send"

\* No handler is between the first and the last step of a request.
Quiescent == \A h \in Handlers : pc[h] \in {"idle", "done"}

\* Text with nothing but whitespace in it (the empty text included).
IsBlank(text) == \A i \in 1 .. Len(text) : text[i] \in Whitespace

\* A POST /send of a JSON object whose message is absent, empty or blank.
IsBlankPost(req) ==
    /\ req.method = "POST" /\ req.path = "/send" /\ req.body.kind = "object"
    /\ req.body.message # NonString
    /\ req.body.message = Absent \/ IsBlank(req.body.message)

\* C1: with requests handled one after another, the store holds as many
\* messages as posts were accepted whenever no request is in progress, and
\* the message at index i has id i.
StoreIdsAreIndexes ==
    /\ \A i \in 1 .. Len(messages) : messages[i].id = i - 1
    /\ Quiescent => Len(messages) = accepted

\* C1 witness: two posts accepted and stored, and a third post just rejected.
StoreIdsWitness ==
    /\ accepted = 2 /\ Len(messages) = 2
    /\ \E h \in Handlers :
           pc[h] = "done" /\ IsSend(h) /\ response[h].status = 400

FetchReturnsSuffix ==
    \A h \in Handlers :
        (/\ pc[h] = "done" /\ IsGet(h, "/messages")
         /\ request[h].query.since = "int" /\ request[h].query.value >= 0)
        => LET K == request[h].query.value
               N == Len(messages)
               got == response[h].messages
           IN  /\ response[h].status = 200
               /\ response[h].kind = "messages"
               /\ response[h].count = N
               /\ Len(got) = Max(0, N - K)
               /\ \A j \in 1 .. Len(got) :
                      got[j] = messages[K + j] /\ got[j].id = K + j - 1

\* C3 witness: since=1 on a store of two messages returned the second one.
FetchSuffixWitness ==
    \E h \in Handlers :
        /\ pc[h] = "done" /\ IsGet(h, "/messages")
        /\ request[h].query.since = "int" /\ request[h].query.value = 1
        /\ Len(messages) = 2
        /\ response[h].messages = <<messages[2]>>

\* C4: a POST /send whose message is absent, empty or all whitespace is
\* answered at once with 400 "Message cannot be empty", and the step that
\* handles it leaves the store as it was.
EmptyPostRejected ==
    [][\A h \in Handlers :
           (pc[h] = "idle" /\ pc'[h] # "idle" /\ IsBlankPost(request'[h]))
           => /\ pc'[h] = "done"
              /\ response'[h] = EmptyMessage
              /\ messages' = messages]_vars

\* C4 witness: a post of " " was rejected while the store held a message.
EmptyPostWitness ==
    \E h \in Handlers :
        /\ pc[h] = "done" /\ IsSend(h)
        /\ request[h].body.kind = "object" /\ request[h].body.message = <<" ">>
        /\ response[h] = EmptyMessage
        /\ Len(messages) = 1

NegativeSinceIsZero ==
    \A h \in Handlers :
        (/\ pc[h] = "done" /\ IsGet(h, "/messages")
         /\ request[h].query.since = "int" /\ request[h].query.value < 0)
        => /\ response[h].status = 200
           /\ response[h].messages = messages
           /\ response[h].count = Len(messages)

\* C7: every step leaves the store unchanged or appends one message at its
\* end, and the step that appends is the append of a POST /send whose message
\* passed validation; what is stored is never removed, moved or changed.
StoreAppendOnly ==
    [][messages' # messages =>
           /\ Len(messages') = Len(messages) + 1
           /\ SubSeq(messages', 1, Len(messages)) = messages
           /\ \E h \in Handlers :
                  /\ IsSend(h) /\ ~IsBlankPost(request[h])
                  /\ pc[h] = "post_append" /\ pc'[h] = "post_unlock"
                  /\ messages'[Len(messages')] = new_message[h]]_vars

\* C7 witness: a fetch has been answered on a store of two messages.
StoreAppendOnlyWitness ==
    /\ Len(messages) = 2
    /\ \E h \in Handlers :
           pc[h] = "done" /\ IsGet(h, "/messages") /\ response[h].status = 200

\* C8: every POST /send ends with a response, and a body that is not valid
\* JSON, or is JSON but not an object with a string message, ends with a 400.
PostAlwaysAnswered ==
    \A h \in Handlers :
        (pc[h] = "done" /\ IsSend(h))
        => /\ response[h].status # 0
           /\ (\/ request[h].body.kind # "object"
               \/ request[h].body.message = NonString)
              => response[h].status = 400

StoredUsernameNotBlank ==
    \A i \in 1 .. Len(messages) :
        IsString(messages[i].username) /\ ~IsBlank(messages[i].username)

\* C11: the text of every stored message is trimmed: it is not empty and
\* neither begins nor ends with whitespace.
StoredTextTrimmed ==
    \A i \in 1 .. Len(messages) :
        LET text == messages[i].message
        IN  /\ text # <<>>
            /\ text[1] \notin Whitespace
            /\ text[Len(text)] \notin Whitespace

\* C14: a /messages response equals the previous /messages response when both
\* requests carried the same since and no post was appended between them.
FetchIdempotent ==
    [][\A h \in Handlers :
           (/\ pc[h] = "get_respond" /\ pc'[h] = "done"
            /\ last_fetch.valid
            /\ last_fetch.query = request[h].query)
           => response'[h] = last_fetch.response]_vars

\* C14 witness: a fetch that returned a message has been repeated with the
\* same since and no append in between.
FetchIdempotentWitness ==
    /\ last_fetch.valid /\ last_fetch.again
    /\ last_fetch.query.since = "int"
    /\ Len(last_fetch.response.messages) >= 1

\* C12: the session's offset never decreases, whatever the interleaving of
\* the poller's steps with the foreground loop's sends and increments.
OffsetMonotonic ==
    [][last_message_id' >= last_message_id]_vars

\* A message of another participant: not posted by this session, and under a
\* username that is not the session's.
FromAnother(m) == m.id \notin own /\ m.username # self_username

\* C13: once the session polls, every message of another participant whose
\* id is below the offset has been shown: printed by the poller, or part of
\* the history loaded when the session began.
OffsetSkipsNothing ==
    poller # "unstarted" =>
        \A i \in 1 .. Len(messages) :
            (FromAnother(messages[i]) /\ messages[i].id < last_message_id)
            => (messages[i].id \in displayed \/ messages[i].id < loaded)

\* C15: a poll whose fetch succeeded ends with the offset set to the total
\* of its response, with messages in the response or without.
PollAdoptsTotal ==
    [][/\ (poller = "fetch" /\ poller' = "while" /\ poll_data' # NoData)
          => last_message_id' = poll_data'.count
       /\ (poller = "assign" /\ poller' = "while")
          => last_message_id' = poll_data.count]_vars

\* C16: the poller prints no message that its own session posted.
PollerNeverShowsOwn == displayed \cap own = {}

\* C17: the poller prints no message twice in a session.
NoMessageShownTwice == ~shown_twice

\* C18: a request that fails in transport changes nothing: a failed poll
\* leaves username and offset as they were and the poller goes on to its next
\* iteration and is not ended by the failure; a send that returned nothing
\* leaves the offset as it was and the input loop goes on.
TransportFailureIsNoOp ==
    [][/\ (poller = "fetch" /\ poller' # "fetch" /\ poller' # "for"
           /\ (poller' = "crashed" \/ poll_data' = NoData))
          => /\ poller' = "while"
             /\ running' = running
             /\ self_username' = self_username
             /\ last_message_id' = last_message_id
       /\ (main = "prompt" /\ main' = "sent" /\ result' = NoData)
          => /\ running' = running
             /\ last_message_id' = last_message_id
       /\ (main = "sent" /\ result = NoData /\ main' \notin {main, "terminated"})
          => main' = "prompt" /\ last_message_id' = last_message_id]_vars

\* C19: the session starts in Connecting; Failed is terminal, and is entered
\* with no poller started and no fetch or post made; the poller and the input
\* loop run only after a status check succeeded; leaving the loop clears
\* 'running', which stays cleared, and the poller starts no iteration after.
SessionLifecycle ==
    /\ main = "connecting" /\ poller = "unstarted" /\ running = TRUE
    /\ [][/\ main = "failed" => main' = "failed"
          /\ main' = "failed"
             => poller' = "unstarted" /\ ~contacted' /\ ~connected'
          /\ (poller' # "unstarted" \/ main' \in {"prompt", "sent", "store"})
             => connected'
          /\ (main # "terminated" /\ main' = "terminated") => ~running'
          /\ ~running => ~running'
          /\ (~running /\ poller = "while") => poller' \in {"while", "stopped"}
          /\ (poller = "stopped") => poller' = "stopped"]_vars

\* C19 witness: a session that connected, polled and printed a message has
\* been quit, and its poller has stopped.
SessionLifecycleWitness ==
    /\ main = "terminated" /\ poller = "stopped" /\ ~running
    /\ displayed # {}

====
